---- MODULE Spec2Model ----
(***************************************************************************)
(* A model of iced_audio's parameter core (src/core/param.rs): the four    *)
(* Param variants FloatParam, IntParam, LogDBParam and OctaveParam, their   *)
(* constructors, set_from_value / set_from_normal and the value <-> Normal  *)
(* conversions; and of the HSlider widget (src/native/h_slider.rs): its    *)
(* State, the event handler on_event and the host application that applies *)
(* the emitted messages and rebuilds the widget                             *)
(* (examples/basic_inputs_steps/step_h_sliders.rs).                         *)
(*                                                                          *)
(* Numbers.  An f32 is modelled by an exact rational <<n, d>> in lowest     *)
(* terms with d > 0; the three non-finite results a division can produce    *)
(* are <<1, 0>> (+inf), <<-1, 0>> (-inf) and <<0, 0>> (NaN).  sqrt is exact *)
(* on squares of rationals and rounded down to 1/SqrtScale elsewhere.  An   *)
(* i32 is modelled by a two's complement integer of IntBits bits.           *)
(* A frequency f of OctaveParam is represented by its octave exponent       *)
(* log2(f / 20), so that 20 Hz is 0 and 20480 Hz is 10 and log2 and powf    *)
(* are exact; this keeps the order of frequencies.                          *)
(***************************************************************************)
EXTENDS Integers, Sequences, FiniteSets, TLC

VARIABLES
    overflow_checks,  \* build profile: TRUE when integer overflow panics
    status,           \* "unbuilt", "ok" (new returned) or "panicked"
    args,             \* the arguments handed to new
    param,            \* the fields of the constructed param
    last,             \* entry point that last changed the param
    state,            \* h_slider::State, owned by the host application
    widget,           \* the HSlider built by the last view()
    bounds_width,     \* layout.bounds().width of the widget
    messages,         \* messages pushed by on_event, not yet applied
    event,            \* history: the step taken last
    drag,             \* history: the drag gesture in progress
    steps             \* number of events delivered so far

pvars == <<overflow_checks, status, args, param, last>>

svars == <<state, widget, bounds_width, messages, event, drag, steps>>

vars == <<overflow_checks, status, args, param, last,
          state, widget, bounds_width, messages, event, drag, steps>>

----------------------------------------------------------------------------
\* Bounds of the model

IntBits == 6
SqrtScale == 100

----------------------------------------------------------------------------
\* f32 arithmetic on rationals

AbsI(i) == IF i < 0 THEN -i ELSE i

RECURSIVE GCD(_, _)
GCD(a, b) == IF b = 0 THEN a ELSE GCD(b, a % b)

Q(n, d) ==
    IF d = 0
    THEN <<IF n > 0 THEN 1 ELSE IF n < 0 THEN -1 ELSE 0, 0>>
    ELSE LET g == GCD(AbsI(n), AbsI(d))
             s == IF d < 0 THEN -1 ELSE 1
         IN  <<s * (n \div g), s * (d \div g)>>

Zero == <<0, 1>>
One == <<1, 1>>
NaN == <<0, 0>>

FromInt(i) == <<i, 1>>

FAdd(a, b) == Q(a[1] * b[2] + b[1] * a[2], a[2] * b[2])
FSub(a, b) == Q(a[1] * b[2] - b[1] * a[2], a[2] * b[2])
FMul(a, b) == Q(a[1] * b[1], a[2] * b[2])
FDiv(a, b) == Q(a[1] * b[2], a[2] * b[1])
FRecip(a) == FDiv(One, a)

\* the comparisons of f32: every comparison with NaN is false
FLt(a, b) == a[1] * b[2] < b[1] * a[2]
FLe(a, b) == a # NaN /\ b # NaN /\ a[1] * b[2] <= b[1] * a[2]
FEq(a, b) == a # NaN /\ a = b
FNe(a, b) == ~FEq(a, b)

FAbs(a) == <<AbsI(a[1]), a[2]>>

RECURSIVE ISqrtFrom(_, _)
ISqrtFrom(x, r) == IF (r + 1) * (r + 1) > x THEN r ELSE ISqrtFrom(x, r + 1)

\* the largest r with r * r <= x
ISqrt(x) == ISqrtFrom(x, 0)

\* f32::sqrt of a non-negative number
FSqrt(a) ==
    LET rn == ISqrt(a[1])
        rd == ISqrt(a[2])
    IN  IF rn * rn = a[1] /\ rd * rd = a[2]
        THEN Q(rn, rd)
        ELSE Q(ISqrt((a[1] * SqrtScale * SqrtScale) \div a[2]), SqrtScale)

\* f32::powi(2)
FSquare(a) == FMul(a, a)

\* f32::round: to the nearest integer, halves away from zero
FRound(a) ==
    IF a[1] >= 0
    THEN (2 * a[1] + a[2]) \div (2 * a[2])
    ELSE -((2 * (-a[1]) + a[2]) \div (2 * a[2]))

----------------------------------------------------------------------------
\* i32 arithmetic

I32Min == -(2 ^ (IntBits - 1))
I32Max == (2 ^ (IntBits - 1)) - 1

InI32(x) == I32Min <= x /\ x <= I32Max

\* the result of an overflowing operation when overflow checks are off
I32Wrap(x) == ((x - I32Min) % (2 ^ IntBits)) + I32Min

\* `as i32` on an integral f32: saturating
I32Sat(x) == IF x < I32Min THEN I32Min ELSE IF x > I32Max THEN I32Max ELSE x

----------------------------------------------------------------------------
\* Normal

\* Normal::new / From<f32>: clamps into [0, 1]; the clamp is total
NormalNew(x) ==
    IF x = NaN THEN Zero
    ELSE IF FLt(x, Zero) THEN Zero
    ELSE IF FLt(One, x) THEN One
    ELSE x

\* Normal::default()
NormalDefault == Zero

----------------------------------------------------------------------------
\* FloatParam

\* the range within which normal_to_value snaps to the default value
SnapEps == Q(1, 1000)

FloatConstrain(p, value) ==
    IF FLe(value, p.min) THEN p.min
    ELSE IF FLe(p.max, value) THEN p.max
    ELSE value

FloatValueToNormal(p, value) ==
    NormalNew(FMul(FSub(value, p.min), p.range_recip))

\* FloatNormalToValue without the snap to the default value
FloatNormalToValueNoSnap(p, normal) ==
    FAdd(FMul(normal, p.range), p.min)

FloatNormalToValue(p, normal) ==
    LET value == FAdd(FMul(normal, p.range), p.min)
    IN  IF FLt(FSub(p.default_value, SnapEps), value)
           /\ FLt(value, FAdd(p.default_value, SnapEps))
        THEN p.default_value
        ELSE value

\* assert!(max > min)
FloatNewPanics(min, max) == ~FLt(min, max)

FloatNew(id, min, max, value, default_value) ==
    LET range == FSub(max, min)
        s0 == [kind |-> "float", id |-> id, value |-> value,
               default_value |-> default_value,
               normal |-> NormalDefault, default_normal |-> NormalDefault,
               min |-> min, max |-> max,
               range |-> range, range_recip |-> FRecip(range)]
        s1 == [s0 EXCEPT !.value = FloatConstrain(s0, value)]
        s2 == [s1 EXCEPT !.default_value = FloatConstrain(s1, default_value)]
        s3 == [s2 EXCEPT !.normal = FloatValueToNormal(s2, s2.value)]
    IN  [s3 EXCEPT !.default_normal = FloatValueToNormal(s3, s3.default_value)]

\* FloatSetFromValue that also makes the new value the default
FloatSetFromValueMovesDefault(p, value) ==
    IF FNe(p.value, value)
    THEN LET s1 == [p EXCEPT !.value = FloatConstrain(p, value)]
             s2 == [s1 EXCEPT !.normal = FloatValueToNormal(s1, s1.value)]
         IN  [s2 EXCEPT !.default_value = s2.value,
                        !.default_normal = s2.normal]
    ELSE p

FloatSetFromValue(p, value) ==
    IF FNe(p.value, value)
    THEN LET s1 == [p EXCEPT !.value = FloatConstrain(p, value)]
         IN  [s1 EXCEPT !.normal = FloatValueToNormal(s1, s1.value)]
    ELSE p


\* FloatSetFromNormal reading the stored normal instead of its argument
FloatSetFromNormalStale(p, normal) ==
    IF FNe(p.normal, normal)
    THEN [p EXCEPT !.value = FloatNormalToValue(p, p.normal),
                   !.normal = normal]
    ELSE p

FloatSetFromNormal(p, normal) ==
    IF FNe(p.normal, normal)
    THEN [p EXCEPT !.value = FloatNormalToValue(p, normal), !.normal = normal]
    ELSE p

----------------------------------------------------------------------------
\* IntParam

IntConstrain(p, value) ==
    IF value <= p.min THEN p.min
    ELSE IF value >= p.max THEN p.max
    ELSE value

IntValueToNormal(p, value) ==
    NormalNew(FMul(FromInt(I32Wrap(value - p.min)), p.range_recip))

IntNormalToValue(p, normal) ==
    I32Wrap(I32Sat(FRound(FMul(normal, p.range))) + p.min)

\* assert!(max > min), and the overflow check of max - min and value - min
\* when the build has overflow checks
IntNewPanics(checks, min, max, value, default_value) ==
    LET b == [min |-> min, max |-> max]
    IN  \/ ~(max > min)
        \/ /\ checks
           /\ \/ ~InI32(max - min)
              \/ ~InI32(IntConstrain(b, value) - min)
              \/ ~InI32(IntConstrain(b, default_value) - min)

IntNew(id, min, max, value, default_value) ==
    LET range == FromInt(I32Wrap(max - min))
        s0 == [kind |-> "int", id |-> id, value |-> value,
               default_value |-> default_value,
               normal |-> NormalDefault, default_normal |-> NormalDefault,
               min |-> min, max |-> max,
               range |-> range, range_recip |-> FRecip(range)]
        s1 == [s0 EXCEPT !.value = IntConstrain(s0, value)]
        s2 == [s1 EXCEPT !.default_value = IntConstrain(s1, default_value)]
        s3 == [s2 EXCEPT !.normal = IntValueToNormal(s2, s2.value)]
    IN  [s3 EXCEPT !.default_normal = IntValueToNormal(s3, s3.default_value)]

IntSetFromValue(p, value) ==
    IF p.value # value
    THEN LET s1 == [p EXCEPT !.value = IntConstrain(p, value)]
         IN  [s1 EXCEPT !.normal = IntValueToNormal(s1, s1.value)]
    ELSE p


\* IntSetFromNormal deriving the normal before it updates the value
IntSetFromNormalSwapped(p, normal) ==
    IF FNe(p.normal, normal)
    THEN [p EXCEPT !.normal = IntValueToNormal(p, p.value),
                   !.value = IntConstrain(p, IntNormalToValue(p, normal))]
    ELSE p

IntSetFromNormal(p, normal) ==
    IF FNe(p.normal, normal)
    THEN LET s1 == [p EXCEPT !.value =
                        IntConstrain(p, IntNormalToValue(p, normal))]
         IN  [s1 EXCEPT !.normal = IntValueToNormal(s1, s1.value)]
    ELSE p

----------------------------------------------------------------------------
\* LogDBParam

LogDBConstrain(p, value) ==
    IF FLe(value, p.min) THEN p.min
    ELSE IF FLe(p.max, value) THEN p.max
    ELSE value


\* LogDBValueToNormal whose positive side leaves out the zero_normal offset
LogDBValueToNormalNoOffset(p, value) ==
    IF FEq(value, Zero) THEN p.zero_normal
    ELSE IF FLt(value, Zero)
    THEN IF FLe(Zero, p.min) THEN NormalNew(Zero)
         ELSE NormalNew(FMul(FSub(One, FSqrt(FDiv(value, p.min))),
                             p.zero_normal))
    ELSE IF FLe(p.max, Zero) THEN NormalNew(One)
         ELSE NormalNew(FMul(FSqrt(FDiv(value, p.max)),
                             FSub(One, p.zero_normal)))

\* LogDBValueToNormal whose negative side leaves out the square root
LogDBValueToNormalLinear(p, value) ==
    IF FEq(value, Zero) THEN p.zero_normal
    ELSE IF FLt(value, Zero)
    THEN IF FLe(Zero, p.min) THEN NormalNew(Zero)
         ELSE NormalNew(FMul(FSub(One, FDiv(value, p.min)), p.zero_normal))
    ELSE IF FLe(p.max, Zero) THEN NormalNew(One)
         ELSE NormalNew(FAdd(FMul(FSqrt(FDiv(value, p.max)),
                                  FSub(One, p.zero_normal)),
                             p.zero_normal))

LogDBValueToNormal(p, value) ==
    IF FEq(value, Zero) THEN p.zero_normal
    ELSE IF FLt(value, Zero)
    THEN IF FLe(Zero, p.min) THEN NormalNew(Zero)
         ELSE LET neg_normal == FDiv(value, p.min)
                  log_normal == FSub(One, FSqrt(neg_normal))
              IN  NormalNew(FMul(log_normal, p.zero_normal))
    ELSE IF FLe(p.max, Zero) THEN NormalNew(One)
         ELSE LET pos_normal == FDiv(value, p.max)
                  log_normal == FSqrt(pos_normal)
              IN  NormalNew(FAdd(FMul(log_normal, FSub(One, p.zero_normal)),
                                 p.zero_normal))

\* LogDBNormalToValue whose negative side leaves out the square
LogDBNormalToValueLinear(p, normal) ==
    IF FEq(normal, p.zero_normal) THEN Zero
    ELSE IF FLt(normal, p.zero_normal)
    THEN IF FLe(Zero, p.min) THEN p.min
         ELSE FMul(FSub(One, FDiv(normal, p.zero_normal)), p.min)
    ELSE IF FEq(p.zero_normal, One) \/ FLe(p.max, Zero) THEN p.max
         ELSE FMul(FSquare(FDiv(FSub(normal, p.zero_normal),
                                FSub(One, p.zero_normal))),
                   p.max)

LogDBNormalToValue(p, normal) ==
    IF FEq(normal, p.zero_normal) THEN Zero
    ELSE IF FLt(normal, p.zero_normal)
    THEN IF FLe(Zero, p.min) THEN p.min
         ELSE LET neg_normal == FDiv(normal, p.zero_normal)
                  log_normal == FSub(One, FSquare(FSub(One, neg_normal)))
              IN  FMul(FSub(One, log_normal), p.min)
    ELSE IF FEq(p.zero_normal, One) \/ FLe(p.max, Zero) THEN p.max
         ELSE LET pos_normal == FDiv(FSub(normal, p.zero_normal),
                                     FSub(One, p.zero_normal))
                  log_normal == FSquare(pos_normal)
              IN  FMul(log_normal, p.max)

\* assert!(max > min); assert!(max >= 0.0); assert!(min <= 0.0)
LogDBNewPanics(min, max) ==
    ~FLt(min, max) \/ ~FLe(Zero, max) \/ ~FLe(min, Zero)

LogDBNew(id, min, max, value, default_value, zero_normal) ==
    LET range == FSub(max, min)
        s0 == [kind |-> "logdb", id |-> id, value |-> value,
               default_value |-> default_value,
               normal |-> NormalDefault, default_normal |-> NormalDefault,
               zero_normal |-> zero_normal, min |-> min, max |-> max,
               range |-> range, range_recip |-> FRecip(range)]
        s1 == [s0 EXCEPT !.value = LogDBConstrain(s0, value)]
        s2 == [s1 EXCEPT !.default_value = LogDBConstrain(s1, default_value)]
        s3 == [s2 EXCEPT !.normal = LogDBValueToNormal(s2, s2.value)]
    IN  [s3 EXCEPT !.default_normal = LogDBValueToNormal(s3, s3.default_value)]

LogDBSetFromValue(p, value) ==
    IF FNe(p.value, value)
    THEN LET s1 == [p EXCEPT !.value = LogDBConstrain(p, value)]
         IN  [s1 EXCEPT !.normal = LogDBValueToNormal(s1, s1.value)]
    ELSE p


\* LogDBSetFromNormal without the test for an unchanged normal
LogDBSetFromNormalNoGuard(p, normal) ==
    [p EXCEPT !.value = LogDBNormalToValue(p, normal), !.normal = normal]

LogDBSetFromNormal(p, normal) ==
    IF FNe(p.normal, normal)
    THEN [p EXCEPT !.value = LogDBNormalToValue(p, normal), !.normal = normal]
    ELSE p

----------------------------------------------------------------------------
\* OctaveParam.  Every frequency is held as its octave exponent log2(f / 20).

\* the exponent of a frequency given in Hz as 20 * 2^(n / d)
Hz(n, d) == Q(n, d)

Hz20 == Hz(0, 1)
Hz20480 == Hz(10, 1)

\* (freq / 40.0).log2()
Log2Div40(freq) == FSub(freq, One)

\* 40.0 * 2.0_f32.powf(e)
Pow2Times40(e) == FAdd(e, One)

octave_normal_to_spectrum(normal) ==
    Pow2Times40(FSub(FMul(FromInt(10), normal), One))

octave_spectrum_to_normal(freq) ==
    NormalNew(FMul(FAdd(Log2Div40(freq), One), Q(1, 10)))

OctaveConstrain(p, value) ==
    IF FLe(value, p.min) THEN p.min
    ELSE IF FLe(p.max, value) THEN p.max
    ELSE value


\* OctaveValueToNormal returning the quotient without clamping it
OctaveValueToNormalUnclamped(p, value) ==
    FDiv(FSub(octave_spectrum_to_normal(value), p.min_spectrum_normal),
         p.spectrum_normal_range)

OctaveValueToNormal(p, value) ==
    LET spectrum_normal == octave_spectrum_to_normal(value)
    IN  NormalNew(FDiv(FSub(spectrum_normal, p.min_spectrum_normal),
                       p.spectrum_normal_range))

OctaveNormalToValue(p, normal) ==
    LET spectrum_normal ==
            NormalNew(FAdd(FMul(normal, p.spectrum_normal_range),
                           p.min_spectrum_normal))
    IN  octave_normal_to_spectrum(spectrum_normal)

\* assert!(max > min)
OctaveNewPanics(min, max) == ~FLt(min, max)

\* the fields range and range_recip (max - min in Hz) are written by new and
\* read nowhere; they are left out
OctaveNew(id, min0, max0, value, default_value) ==
    LET min == IF FLt(min0, Hz20) THEN Hz20 ELSE min0
        max == IF FLt(Hz20480, max0) THEN Hz20480 ELSE max0
        min_spectrum_normal == octave_spectrum_to_normal(min)
        max_spectrum_normal == octave_spectrum_to_normal(max)
        s0 == [kind |-> "octave", id |-> id, value |-> value,
               default_value |-> default_value,
               normal |-> NormalDefault, default_normal |-> NormalDefault,
               min_spectrum_normal |-> min_spectrum_normal,
               spectrum_normal_range |->
                   FSub(max_spectrum_normal, min_spectrum_normal),
               min |-> min, max |-> max]
        s1 == [s0 EXCEPT !.value = OctaveConstrain(s0, value)]
        s2 == [s1 EXCEPT !.default_value = OctaveConstrain(s1, default_value)]
        s3 == [s2 EXCEPT !.normal = OctaveValueToNormal(s2, s2.value)]
    IN  [s3 EXCEPT !.default_normal = OctaveValueToNormal(s3, s3.default_value)]

OctaveSetFromValue(p, value) ==
    IF FNe(p.value, value)
    THEN LET s1 == [p EXCEPT !.value = OctaveConstrain(p, value)]
         IN  [s1 EXCEPT !.normal = OctaveValueToNormal(s1, s1.value)]
    ELSE p

OctaveSetFromNormal(p, normal) ==
    IF FNe(p.normal, normal)
    THEN [p EXCEPT !.value = OctaveNormalToValue(p, normal), !.normal = normal]
    ELSE p

----------------------------------------------------------------------------
\* The arguments the model draws from

IDs == {"id"}

NormalInputs ==
    {Zero, Q(1, 4), Q(1, 2), Q(2001, 4000), Q(501, 1000), Q(3, 4), Q(4, 5), One}

FloatBounds == {FromInt(-1), Zero, One, FromInt(2)}
FloatValues == {FromInt(-2), Zero, Q(1, 2), Q(2001, 4000), One, FromInt(3)}
FloatDefaults == {Zero, Q(1, 2), FromInt(3)}

IntBounds == {I32Min, -1, 0, 2, I32Max}
IntValues == {I32Min, 0, 1, 3, I32Max}
IntDefaults == {1, I32Max}

DbBounds == {FromInt(-12), FromInt(-1), Zero, One, FromInt(12)}
DbValues == {FromInt(-13), FromInt(-12), FromInt(-5), FromInt(-3), Zero,
             FromInt(3), FromInt(12), FromInt(13)}
DbDefaults == {Zero, FromInt(-3)}
ZeroNormals == {Zero, Q(1, 2), Q(3, 4), One}

\* 5, 10, 20, 40, 640, 20480 and 40960 Hz, and 30000 Hz to two decimals
Hz30000 == Hz(211, 20)
HzBounds == {Hz(-2, 1), Hz(-1, 1), Hz20, Hz(1, 1), Hz(5, 1), Hz20480,
             Hz30000, Hz(11, 1)}
\* 5, 20, 160, 20480 and 40960 Hz, and 1000 Hz to two decimals
Hz1000 == Hz(141, 25)
HzValues == {Hz(-2, 1), Hz20, Hz(3, 1), Hz1000, Hz20480, Hz(11, 1)}
HzDefaults == {Hz1000, Hz20}

----------------------------------------------------------------------------
\* The operations by variant

ValueToNormal(p, value) ==
    CASE p.kind = "float" -> FloatValueToNormal(p, value)
      [] p.kind = "int" -> IntValueToNormal(p, value)
      [] p.kind = "logdb" -> LogDBValueToNormal(p, value)
      [] p.kind = "octave" -> OctaveValueToNormal(p, value)

NormalToValue(p, normal) ==
    CASE p.kind = "float" -> FloatNormalToValue(p, normal)
      [] p.kind = "int" -> IntNormalToValue(p, normal)
      [] p.kind = "logdb" -> LogDBNormalToValue(p, normal)
      [] p.kind = "octave" -> OctaveNormalToValue(p, normal)

SetFromValue(p, value) ==
    CASE p.kind = "float" -> FloatSetFromValue(p, value)
      [] p.kind = "int" -> IntSetFromValue(p, value)
      [] p.kind = "logdb" -> LogDBSetFromValue(p, value)
      [] p.kind = "octave" -> OctaveSetFromValue(p, value)

SetFromNormal(p, normal) ==
    CASE p.kind = "float" -> FloatSetFromNormal(p, normal)
      [] p.kind = "int" -> IntSetFromNormal(p, normal)
      [] p.kind = "logdb" -> LogDBSetFromNormal(p, normal)
      [] p.kind = "octave" -> OctaveSetFromNormal(p, normal)

\* the values set_from_value is called with
ValueInputs(p) ==
    CASE p.kind = "float" -> FloatValues
      [] p.kind = "int" -> IntValues
      [] p.kind = "logdb" -> DbValues
      [] p.kind = "octave" -> HzValues

\* value <= other in the order of the variant's value type
ValueLe(p, a, b) == IF p.kind = "int" THEN a <= b ELSE FLe(a, b)

----------------------------------------------------------------------------
\* The state machine: one param, built by one call of new and then mutated
\* through set_from_value and set_from_normal

NoParam == [kind |-> "none"]
NoArgs == [kind |-> "none"]

\* no widget has been created
NoWidget == [kind |-> "none"]

NoEvent == [type |-> "none"]

NoDrag == [active |-> FALSE]

Init ==
    /\ overflow_checks \in BOOLEAN
    /\ status = "unbuilt"
    /\ args = NoArgs
    /\ param = NoParam
    /\ last = "new"
    /\ state = NoWidget
    /\ widget = NoWidget
    /\ bounds_width = 0
    /\ messages = << >>
    /\ event = NoEvent
    /\ drag = NoDrag
    /\ steps = 0

Built(panics, p) ==
    /\ status' = IF panics THEN "panicked" ELSE "ok"
    /\ param' = IF panics THEN NoParam ELSE p
    /\ last' = "new"
    /\ UNCHANGED overflow_checks
    /\ UNCHANGED svars

NewFloat ==
    /\ status = "unbuilt"
    /\ \E id \in IDs, min \in FloatBounds, max \in FloatBounds,
          value \in FloatValues, default_value \in FloatDefaults :
          /\ args' = [kind |-> "float", id |-> id, min |-> min, max |-> max,
                      value |-> value, default_value |-> default_value]
          /\ Built(FloatNewPanics(min, max),
                   FloatNew(id, min, max, value, default_value))

NewInt ==
    /\ status = "unbuilt"
    /\ \E id \in IDs, min \in IntBounds, max \in IntBounds,
          value \in IntValues, default_value \in IntDefaults :
          /\ args' = [kind |-> "int", id |-> id, min |-> min, max |-> max,
                      value |-> value, default_value |-> default_value]
          /\ Built(IntNewPanics(overflow_checks, min, max, value,
                                default_value),
                   IntNew(id, min, max, value, default_value))

NewLogDB ==
    /\ status = "unbuilt"
    /\ \E id \in IDs, min \in DbBounds, max \in DbBounds,
          value \in DbValues, default_value \in DbDefaults,
          zero_normal \in ZeroNormals :
          /\ args' = [kind |-> "logdb", id |-> id, min |-> min, max |-> max,
                      value |-> value, default_value |-> default_value,
                      zero_normal |-> zero_normal]
          /\ Built(LogDBNewPanics(min, max),
                   LogDBNew(id, min, max, value, default_value, zero_normal))

NewOctave ==
    /\ status = "unbuilt"
    /\ \E id \in IDs, min \in HzBounds, max \in HzBounds,
          value \in HzValues, default_value \in HzDefaults :
          /\ args' = [kind |-> "octave", id |-> id, min |-> min, max |-> max,
                      value |-> value, default_value |-> default_value]
          /\ Built(OctaveNewPanics(min, max),
                   OctaveNew(id, min, max, value, default_value))

Mutated(p, by) ==
    /\ param' = p
    /\ last' = IF p # param THEN by ELSE last
    /\ UNCHANGED <<overflow_checks, status, args>>
    /\ UNCHANGED svars

DoFloatSetFromValue ==
    /\ status = "ok" /\ param.kind = "float"
    /\ \E value \in FloatValues :
          Mutated(FloatSetFromValue(param, value), "value")

DoFloatSetFromNormal ==
    /\ status = "ok" /\ param.kind = "float"
    /\ \E normal \in NormalInputs :
          Mutated(FloatSetFromNormal(param, normal), "normal")

DoIntSetFromValue ==
    /\ status = "ok" /\ param.kind = "int"
    /\ \E value \in IntValues :
          Mutated(IntSetFromValue(param, value), "value")

DoIntSetFromNormal ==
    /\ status = "ok" /\ param.kind = "int"
    /\ \E normal \in NormalInputs :
          Mutated(IntSetFromNormal(param, normal), "normal")

DoLogDBSetFromValue ==
    /\ status = "ok" /\ param.kind = "logdb"
    /\ \E value \in DbValues :
          Mutated(LogDBSetFromValue(param, value), "value")

DoLogDBSetFromNormal ==
    /\ status = "ok" /\ param.kind = "logdb"
    /\ \E normal \in NormalInputs :
          Mutated(LogDBSetFromNormal(param, normal), "normal")

DoOctaveSetFromValue ==
    /\ status = "ok" /\ param.kind = "octave"
    /\ \E value \in HzValues :
          Mutated(OctaveSetFromValue(param, value), "value")

DoOctaveSetFromNormal ==
    /\ status = "ok" /\ param.kind = "octave"
    /\ \E normal \in NormalInputs :
          Mutated(OctaveSetFromNormal(param, normal), "normal")

Next ==
    \/ NewFloat
    \/ NewInt
    \/ NewLogDB
    \/ NewOctave
    \/ DoFloatSetFromValue
    \/ DoFloatSetFromNormal
    \/ DoIntSetFromValue
    \/ DoIntSetFromNormal
    \/ DoLogDBSetFromValue
    \/ DoLogDBSetFromNormal
    \/ DoOctaveSetFromValue
    \/ DoOctaveSetFromNormal

Spec == Init /\ [][Next]_vars

TypeOK == status \in {"unbuilt", "ok", "panicked"}

----------------------------------------------------------------------------
\* HSlider (src/native/h_slider.rs)

\* bounds of the slider model
MaxSteps == 4
MaxQueue == 2
MaxAcc == 3

DEFAULT_HEIGHT == 14
DEFAULT_MODIFIER_SCALAR == Q(1, 50)

\* keyboard::ModifiersState as the set of the keys held down
ModifiersDefault == {}

\* ModifiersState::matches: every key of modifiers is held in pressed
ModifiersMatches(pressed, modifiers) == modifiers \subseteq pressed

NoClick == [kind |-> "none"]

\* the kind that follows prev in a run of consecutive clicks
ClickNext(prev) == IF prev = "single" THEN "double"
                   ELSE IF prev = "double" THEN "triple"
                   ELSE "double"

\* mouse::Click::new(position, previous); consecutive tells whether the
\* previous click is recent enough to count as the same run of clicks
ClickNew(position, previous, consecutive) ==
    [position |-> position,
     kind |-> IF previous # NoClick /\ consecutive
                  /\ previous.position = position
              THEN ClickNext(previous.kind)
              ELSE "single"]

\* layout.bounds().contains(cursor_position), the bounds placed at the origin
Contains(width, cursor_position) ==
    /\ 0 <= cursor_position.x /\ cursor_position.x <= width
    /\ 0 <= cursor_position.y /\ cursor_position.y <= DEFAULT_HEIGHT

\* HSlider::new(state, param, on_change)
HSliderNew(p) ==
    [kind |-> "h_slider",
     id |-> p.id,
     normal |-> p.normal,
     default_normal |-> p.default_normal,
     modifier_scalar |-> DEFAULT_MODIFIER_SCALAR,
     modifier_keys |-> {"control"}]

\* HSlider::modifier_keys(modifier_keys)
HSliderModifierKeys(self, modifier_keys) ==
    [self EXCEPT !.modifier_keys = modifier_keys]

\* HSlider::modifier_scalar(scalar)
HSliderModifierScalar(self, scalar) ==
    [self EXCEPT !.modifier_scalar = scalar]

\* view() of the host: the slider of the float param keeps the defaults,
\* the slider of the int param is fine-tuned with Shift at one quarter
View(p) ==
    IF p.kind = "int"
    THEN HSliderModifierScalar(HSliderModifierKeys(HSliderNew(p), {"shift"}),
                               Q(1, 4))
    ELSE HSliderNew(p)

\* State::new(param)
StateNew(p) ==
    [kind |-> "state",
     is_dragging |-> FALSE,
     prev_drag_x |-> Zero,
     continuous_normal |-> p.normal,
     pressed_modifiers |-> ModifiersDefault,
     last_click |-> NoClick]

\* (self.on_change)((id, normal))
Message(id, normal) == [id |-> id, normal |-> normal]

\* OnPressed that does not look at the bounds
OnPressedAnywhere(self, st, width, cursor_position, consecutive) ==
    LET click == ClickNew(cursor_position, st.last_click, consecutive)
    IN  IF click.kind = "single"
        THEN [state |-> [st EXCEPT !.is_dragging = TRUE,
                                   !.prev_drag_x = FromInt(cursor_position.x),
                                   !.last_click = click],
              out |-> << >>]
        ELSE [state |-> [st EXCEPT !.is_dragging = FALSE,
                                   !.last_click = click],
              out |-> <<Message(self.id, self.default_normal)>>]

\* OnPressed with a multi-click that leaves is_dragging as it was
OnPressedKeepsDragging(self, st, width, cursor_position, consecutive) ==
    IF Contains(width, cursor_position)
    THEN LET click == ClickNew(cursor_position, st.last_click, consecutive)
         IN  IF click.kind = "single"
             THEN [state |-> [st EXCEPT !.is_dragging = TRUE,
                                        !.prev_drag_x = FromInt(cursor_position.x),
                                        !.last_click = click],
                   out |-> << >>]
             ELSE [state |-> [st EXCEPT !.last_click = click],
                   out |-> <<Message(self.id, self.default_normal)>>]
    ELSE [state |-> st, out |-> << >>]

\* on_event, left button pressed
OnPressed(self, st, width, cursor_position, consecutive) ==
    IF Contains(width, cursor_position)
    THEN LET click == ClickNew(cursor_position, st.last_click, consecutive)
         IN  IF click.kind = "single"
             THEN [state |-> [st EXCEPT !.is_dragging = TRUE,
                                        !.prev_drag_x = FromInt(cursor_position.x),
                                        !.last_click = click],
                   out |-> << >>]
             ELSE [state |-> [st EXCEPT !.is_dragging = FALSE,
                                        !.last_click = click],
                   out |-> <<Message(self.id, self.default_normal)>>]
    ELSE [state |-> st, out |-> << >>]

\* OnReleased that only resynchronizes the accumulator
OnReleasedKeepsDragging(self, st) ==
    [state |-> [st EXCEPT !.continuous_normal = self.normal],
     out |-> << >>]

\* on_event, left button released
OnReleased(self, st) ==
    [state |-> [st EXCEPT !.is_dragging = FALSE,
                          !.continuous_normal = self.normal],
     out |-> << >>]

\* MovementX that never applies the modifier scalar
MovementXUnscaled(self, st, width, cursor_position) ==
    FDiv(FSub(FromInt(cursor_position.x), st.prev_drag_x), FromInt(width))

\* the movement of a drag step, as a fraction of the width
MovementX(self, st, width, cursor_position) ==
    LET movement_x == FDiv(FSub(FromInt(cursor_position.x), st.prev_drag_x),
                           FromInt(width))
    IN  IF ModifiersMatches(st.pressed_modifiers, self.modifier_keys)
        THEN FMul(movement_x, self.modifier_scalar)
        ELSE movement_x

\* OnCursorMoved that pushes nothing when the Normal is the widget's
OnCursorMovedDeduplicated(self, st, width, cursor_position) ==
    IF st.is_dragging /\ width # 0
    THEN LET normal == FAdd(st.continuous_normal,
                            MovementX(self, st, width, cursor_position))
         IN  [state |-> [st EXCEPT !.continuous_normal = normal,
                                   !.prev_drag_x = FromInt(cursor_position.x)],
              out |-> IF NormalNew(normal) = self.normal THEN << >>
                      ELSE <<Message(self.id, NormalNew(normal))>>]
    ELSE [state |-> st, out |-> << >>]

\* OnCursorMoved that starts from the Normal the widget was built with
OnCursorMovedFromParam(self, st, width, cursor_position) ==
    IF st.is_dragging /\ width # 0
    THEN LET normal == FAdd(self.normal,
                            MovementX(self, st, width, cursor_position))
         IN  [state |-> [st EXCEPT !.continuous_normal = normal,
                                   !.prev_drag_x = FromInt(cursor_position.x)],
              out |-> <<Message(self.id, NormalNew(normal))>>]
    ELSE [state |-> st, out |-> << >>]

\* OnCursorMoved that pushes the accumulator itself
OnCursorMovedUnclamped(self, st, width, cursor_position) ==
    IF st.is_dragging /\ width # 0
    THEN LET normal == FAdd(st.continuous_normal,
                            MovementX(self, st, width, cursor_position))
         IN  [state |-> [st EXCEPT !.continuous_normal = normal,
                                   !.prev_drag_x = FromInt(cursor_position.x)],
              out |-> <<Message(self.id, normal)>>]
    ELSE [state |-> st, out |-> << >>]

\* OnCursorMoved that leaves the anchor prev_drag_x where it was
OnCursorMovedStaleAnchor(self, st, width, cursor_position) ==
    IF st.is_dragging /\ width # 0
    THEN LET normal == FAdd(st.continuous_normal,
                            MovementX(self, st, width, cursor_position))
         IN  [state |-> [st EXCEPT !.continuous_normal = normal],
              out |-> <<Message(self.id, NormalNew(normal))>>]
    ELSE [state |-> st, out |-> << >>]

\* OnCursorMoved with the accumulator clamped to the emitted Normal
OnCursorMovedClamped(self, st, width, cursor_position) ==
    IF st.is_dragging /\ width # 0
    THEN LET normal == FAdd(st.continuous_normal,
                            MovementX(self, st, width, cursor_position))
         IN  [state |-> [st EXCEPT !.continuous_normal = NormalNew(normal),
                                   !.prev_drag_x = FromInt(cursor_position.x)],
              out |-> <<Message(self.id, NormalNew(normal))>>]
    ELSE [state |-> st, out |-> << >>]

\* on_event, cursor moved
OnCursorMoved(self, st, width, cursor_position) ==
    IF st.is_dragging /\ width # 0
    THEN LET normal == FAdd(st.continuous_normal,
                            MovementX(self, st, width, cursor_position))
         IN  [state |-> [st EXCEPT !.continuous_normal = normal,
                                   !.prev_drag_x = FromInt(cursor_position.x)],
              out |-> <<Message(self.id, NormalNew(normal))>>]
    ELSE [state |-> st, out |-> << >>]

\* OnKeyboard that also ends the drag
OnKeyboardEndsDrag(self, st, modifiers) ==
    [state |-> [st EXCEPT !.pressed_modifiers = modifiers,
                          !.is_dragging = FALSE],
     out |-> << >>]

\* on_event, keyboard input
OnKeyboard(self, st, modifiers) ==
    [state |-> [st EXCEPT !.pressed_modifiers = modifiers], out |-> << >>]

\* on_event, any other event
OnOther(self, st) == [state |-> st, out |-> << >>]

\* draw: what the widget hands to renderer.draw
Draw(self, st, width) ==
    [bounds_width |-> width,
     normal |-> self.normal,
     is_dragging |-> st.is_dragging]

\* update() of the host: every message is applied with set_from_normal
RECURSIVE ApplyMessages(_, _)
ApplyMessages(p, msgs) ==
    IF msgs = << >> THEN p
    ELSE ApplyMessages(SetFromNormal(p, Head(msgs).normal), Tail(msgs))

\* inputs of the slider model
CursorXs == {-8, 0, 2, 4, 12}
CursorInY == 7
CursorOutY == 20
Cursors == [x : CursorXs, y : {CursorInY}] \cup {[x |-> 2, y |-> CursorOutY]}
Widths == {0, 4}
ModifierStates == SUBSET {"control", "shift"}
SliderKinds == {"float", "int"}
SliderParam(kind) ==
    IF kind = "float" THEN FloatNew("id", Zero, One, Q(1, 4), Q(1, 2))
    ELSE IntNew("id", 0, 2, 1, 1)
OtherEvents == {"right_pressed", "right_released"}

\* the drag history after a single click at cursor_position, p the param
DragStart(st, p, cursor_position) ==
    [active |-> TRUE,
     x_press |-> cursor_position.x,
     c_press |-> st.continuous_normal,
     p_press |-> p.normal,
     moves |-> 0,
     largest |-> Zero,
     plain |-> TRUE,
     side |-> "none",
     turn_x |-> 0,
     overshoot |-> Zero]

\* the drag history after a move to cursor_position: side is "low" (resp.
\* "high") while the distance dragged since the press, over the width, took
\* the Normal of the press below 0 (above 1) at turn_x by overshoot pixels
\* and the cursor has only come back since; largest is the largest
\* movement of a single move, as a fraction of the width
DragMove(d0, self, st, width, cursor_position) ==
    LET x == FromInt(cursor_position.x)
        moved == FAbs(FMul(FDiv(FSub(x, st.prev_drag_x), FromInt(width)),
                           IF self.modifier_keys \subseteq st.pressed_modifiers
                           THEN self.modifier_scalar ELSE One))
        d == [d0 EXCEPT !.moves = IF d0.moves = 0 THEN 1 ELSE 2,
                        !.largest = IF FLt(d0.largest, moved) THEN moved
                                    ELSE d0.largest]
        acc == FAdd(d.c_press,
                    FDiv(FromInt(cursor_position.x - d.x_press),
                         FromInt(width)))
        scaled == ModifiersMatches(st.pressed_modifiers, self.modifier_keys)
        plain == d.plain /\ ~scaled
        left == FLt(x, st.prev_drag_x)
        right == FLt(st.prev_drag_x, x)
    IN  IF ~plain
        THEN [d EXCEPT !.plain = FALSE, !.side = "none", !.turn_x = 0,
                       !.overshoot = Zero]
        ELSE IF FLt(acc, Zero) /\ left
        THEN [d EXCEPT !.side = "low", !.turn_x = cursor_position.x,
                       !.overshoot = FMul(FSub(Zero, acc), FromInt(width))]
        ELSE IF FLt(One, acc) /\ right
        THEN [d EXCEPT !.side = "high", !.turn_x = cursor_position.x,
                       !.overshoot = FMul(FSub(acc, One), FromInt(width))]
        ELSE IF (d.side = "low" /\ ~left) \/ (d.side = "high" /\ ~right)
        THEN d
        ELSE [d EXCEPT !.side = "none", !.turn_x = 0, !.overshoot = Zero]

\* the application starts with a param, State::new(&param) and a first view()
SliderInit ==
    /\ overflow_checks = FALSE
    /\ status = "ok"
    /\ args = NoArgs
    /\ \E kind \in SliderKinds : param = SliderParam(kind)
    /\ last = "new"
    /\ state = StateNew(param)
    /\ widget = View(param)
    /\ bounds_width \in Widths
    /\ messages = << >>
    /\ event = NoEvent
    /\ drag = NoDrag
    /\ steps = 0

\* an event is delivered to on_event; r is what the handler returns
Delivered(r, e, d) ==
    /\ steps < MaxSteps
    /\ Len(messages) + Len(r.out) <= MaxQueue
    /\ FLe(FAbs(r.state.continuous_normal), FromInt(MaxAcc))
    /\ state' = r.state
    /\ messages' = messages \o r.out
    /\ event' = [e EXCEPT !.out = r.out]
    /\ drag' = d
    /\ steps' = steps + 1
    /\ UNCHANGED <<pvars, widget, bounds_width>>

LeftPressed ==
    \E cursor_position \in Cursors, consecutive \in BOOLEAN :
        LET r == OnPressed(widget, state, bounds_width, cursor_position,
                           consecutive)
            inside == Contains(bounds_width, cursor_position)
            kind == IF inside THEN r.state.last_click.kind ELSE "none"
        IN  Delivered(r,
                      [type |-> "pressed", cursor |-> cursor_position,
                       kind |-> kind, was_dragging |-> state.is_dragging,
                       out |-> << >>],
                      IF kind = "single"
                      THEN DragStart(state, param, cursor_position)
                      ELSE IF kind = "none" THEN drag
                      ELSE NoDrag)

LeftReleased ==
    Delivered(OnReleased(widget, state),
              [type |-> "released", out |-> << >>],
              NoDrag)

CursorMoved ==
    \E cursor_position \in Cursors :
        LET r == OnCursorMoved(widget, state, bounds_width, cursor_position)
        IN  Delivered(r,
                      [type |-> "moved", cursor |-> cursor_position,
                       out |-> << >>],
                      IF r.out # << >>
                      THEN DragMove(drag, widget, state, bounds_width,
                                    cursor_position)
                      ELSE drag)

KeyboardInput ==
    \E modifiers \in ModifierStates :
        Delivered(OnKeyboard(widget, state, modifiers),
                  [type |-> "keyboard", modifiers |-> modifiers,
                   out |-> << >>],
                  drag)

OtherEvent ==
    \E e \in OtherEvents :
        Delivered(OnOther(widget, state),
                  [type |-> e, out |-> << >>],
                  drag)

\* the host runs update() on every pending message and then view()
HostUpdate ==
    /\ messages # << >>
    /\ param' = ApplyMessages(param, messages)
    /\ last' = "normal"
    /\ widget' = View(param')
    /\ messages' = << >>
    /\ event' = [type |-> "update", after |-> event.type]
    /\ UNCHANGED <<overflow_checks, status, args, state, bounds_width, drag,
                   steps>>

\* the host sets the param from a value of its own and then runs view()
HostSetFromValue ==
    /\ messages = << >>
    /\ steps < MaxSteps
    /\ \E value \in ValueInputs(param) :
          param' = SetFromValue(param, value)
    /\ last' = "value"
    /\ widget' = View(param')
    /\ event' = [type |-> "set_from_value"]
    /\ steps' = steps + 1
    /\ UNCHANGED <<overflow_checks, status, args, state, bounds_width,
                   messages, drag>>

SliderNext ==
    \/ LeftPressed
    \/ LeftReleased
    \/ CursorMoved
    \/ KeyboardInput
    \/ OtherEvent
    \/ HostUpdate
    \/ HostSetFromValue

SliderSpec == SliderInit /\ [][SliderNext]_vars

----------------------------------------------------------------------------
\* Properties

InUnit(n) == FLe(Zero, n) /\ FLe(n, One)

\* value within the variant's bounds
InBounds(p, v) == ValueLe(p, p.min, v) /\ ValueLe(p, v, p.max)

\* C1: whichever of value and normal was set last is the source of truth:
\* after an effective set_from_value the normal is value_to_normal(value),
\* after an effective set_from_normal the value is normal_to_value(normal).
C1_ValueNormalConsistent ==
    status = "ok" =>
        /\ last = "value" =>
               param.normal = ValueToNormal(param, param.value)
        /\ last = "normal" =>
               param.value = NormalToValue(param, param.normal)

\* a FloatParam set from a normal that snapped to the default: the stored
\* normal is not the one its value maps to
C1_Witness ==
    /\ status = "ok"
    /\ param.kind = "float"
    /\ last = "normal"
    /\ param.normal # ValueToNormal(param, param.value)

\* C2: normal and default_normal lie in [0, 1] in every reachable state,
\* whatever values the param was built and set with.
C2_NormalInUnit ==
    status = "ok" => InUnit(param.normal) /\ InUnit(param.default_normal)

\* a param built with a value above max and set from a value below min
C2_Witness ==
    /\ status = "ok"
    /\ last = "value"
    /\ ~ValueLe(param, args.value, args.max)
    /\ param.normal = Zero
    /\ param.default_normal # Zero

\* C3: value and default_value lie in [min, max] in every reachable state.
C3_ValueInBounds ==
    status = "ok" =>
        /\ InBounds(param, param.value)
        /\ InBounds(param, param.default_value)

\* the tolerance of a round trip: the error of the rounded square root
RoundTripClose(p, a, b) ==
    IF p.kind = "logdb"
    THEN FLe(FMul(FAbs(FSub(a, b)), FromInt(SqrtScale)),
             FMul(FromInt(2), p.range))
    ELSE a = b

\* C4: normal_to_value(value_to_normal(v)) is v for every v in [min, max],
\* except where FloatParam snaps a value within 0.001 of the default.
C4_RoundTrip ==
    status = "ok" =>
        \A v \in ValueInputs(param) :
            /\ InBounds(param, v)
            /\ ~(/\ param.kind = "float"
                 /\ FLt(FAbs(FSub(v, param.default_value)), SnapEps))
            => RoundTripClose(param,
                   NormalToValue(param, ValueToNormal(param, v)), v)

\* C5: IntParam::set_from_normal(n) leaves the integer nearest to
\* min + n * (max - min) as value and value_to_normal(value) as normal; with
\* new(id, 0, 2, 1, 1), set_from_normal(0.8) gives value 2 and normal 1.0.
C5_IntQuantization ==
    (status = "ok" /\ param.kind = "int") =>
        \A n \in NormalInputs :
            LET q == IntSetFromNormal(param, n)
                exact == FAdd(FromInt(param.min),
                              FMul(n, FromInt(param.max - param.min)))
            IN  /\ FLe(FAbs(FSub(FromInt(q.value), exact)), Q(1, 2))
                /\ q.normal = IntValueToNormal(q, q.value)
                /\ (param.min = 0 /\ param.max = 2 /\ n = Q(4, 5))
                       => (q.value = 2 /\ q.normal = One)

\* C6: set_from_normal(n) twice in a row leaves the state that one call
\* leaves.
C6_SetFromNormalIdempotent ==
    status = "ok" =>
        \A n \in NormalInputs :
            SetFromNormal(SetFromNormal(param, n), n) = SetFromNormal(param, n)

\* an IntParam set from a normal whose stored canonical normal differs from
\* a normal n that maps to the same integer: a second set_from_normal(n)
\* recomputes and changes nothing
C6_Witness ==
    /\ status = "ok"
    /\ param.kind = "int"
    /\ last = "normal"
    /\ \E n \in NormalInputs :
           /\ n # param.normal
           /\ IntNormalToValue(param, n) = param.value
           /\ InI32(param.max - param.min)

\* C7: set_from_value(value()) and set_from_normal(normal()) leave value and
\* normal unchanged.
C7_NoOpOnEqualInput ==
    status = "ok" =>
        /\ SetFromValue(param, param.value) = param
        /\ SetFromNormal(param, param.normal) = param

\* a LogDBParam set from a value whose normal does not map back to it
C7_Witness ==
    /\ status = "ok"
    /\ param.kind = "logdb"
    /\ last = "value"
    /\ LogDBNormalToValue(param, param.normal) # param.value

\* the bounds the documentation of new says it panics on
BadBounds(a) ==
    IF a.kind = "int" THEN a.max <= a.min
    ELSE \/ FLe(a.max, a.min)
         \/ a.kind = "logdb" /\ (FLt(Zero, a.min) \/ FLt(a.max, Zero))

\* C8: new panics exactly when max <= min or, for LogDBParam, min > 0 or
\* max < 0.
C8_PanicsIffBadBounds ==
    status # "unbuilt" => (status = "panicked" <=> BadBounds(args))

\* C9: a LogDBParam with min < 0 < max maps 0 to zero_normal, max to 1.0 and
\* min to 0.0, and maps zero_normal to 0; with (-12, 12, 0.5) the three
\* normals are 0.5, 1.0 and 0.0.
C9_LogDBZeroPoint ==
    (/\ status = "ok"
     /\ param.kind = "logdb"
     /\ FLt(param.min, Zero)
     /\ FLt(Zero, param.max)) =>
        /\ LogDBValueToNormal(param, Zero) = param.zero_normal
        /\ LogDBValueToNormal(param, param.max) = One
        /\ LogDBValueToNormal(param, param.min) = Zero
        /\ LogDBNormalToValue(param, param.zero_normal) = Zero
        /\ (/\ param.min = FromInt(-12)
            /\ param.max = FromInt(12)
            /\ param.zero_normal = Q(1, 2)) =>
               /\ LogDBValueToNormal(param, Zero) = Q(1, 2)
               /\ LogDBValueToNormal(param, FromInt(12)) = One
               /\ LogDBValueToNormal(param, FromInt(-12)) = Zero

\* LogDBParam::new(id, -12.0, 12.0, _, _, 0.5) has returned
C9_Witness ==
    /\ status = "ok"
    /\ param.kind = "logdb"
    /\ param.min = FromInt(-12)
    /\ param.max = FromInt(12)
    /\ param.zero_normal = Q(1, 2)

\* C10: the bounds OctaveParam::new leaves lie in [20 Hz, 20480 Hz] with
\* max > min and spectrum_normal_range > 0; requested bounds (5, 30000)
\* give [20, 20480] with value_to_normal 0.0 and 1.0 at the two ends.
C10_OctaveBounds ==
    (status = "ok" /\ param.kind = "octave") =>
        /\ FLe(Hz20, param.min) /\ FLe(param.min, Hz20480)
        /\ FLe(Hz20, param.max) /\ FLe(param.max, Hz20480)
        /\ FLt(param.min, param.max)
        /\ FLt(Zero, param.spectrum_normal_range)
        /\ (args.min = Hz(-2, 1) /\ args.max = Hz30000) =>
               /\ param.min = Hz20
               /\ param.max = Hz20480
               /\ OctaveValueToNormal(param, Hz20) = Zero
               /\ OctaveValueToNormal(param, Hz20480) = One

\* the positive side of the reference formula of value_to_normal
LogDBPositiveNormal(p, v) ==
    FAdd(p.zero_normal,
         FMul(FSub(One, p.zero_normal), FSqrt(FDiv(v, p.max))))

\* C18 as stated: for value < 0 value_to_normal is
\* zero_normal * (1 - sqrt(1 - value / min)), for value > 0 it is
\* zero_normal + (1 - zero_normal) * sqrt(value / max).
C18_LogDBReferenceAsStated ==
    (status = "ok" /\ param.kind = "logdb") =>
        \A v \in DbValues :
            InBounds(param, v) =>
                /\ FLt(v, Zero) =>
                       LogDBValueToNormal(param, v) =
                           FMul(param.zero_normal,
                                FSub(One, FSqrt(FSub(One,
                                                     FDiv(v, param.min)))))
                /\ FLt(Zero, v) =>
                       LogDBValueToNormal(param, v) =
                           LogDBPositiveNormal(param, v)

\* C18 (amended): for value < 0 in [min, max] value_to_normal is
\* zero_normal * (1 - sqrt(value / min)); for value > 0 it is
\* zero_normal + (1 - zero_normal) * sqrt(value / max).
C18_LogDBReference ==
    (status = "ok" /\ param.kind = "logdb") =>
        \A v \in DbValues :
            InBounds(param, v) =>
                /\ FLt(v, Zero) =>
                       LogDBValueToNormal(param, v) =
                           FMul(param.zero_normal,
                                FSub(One, FSqrt(FDiv(v, param.min))))
                /\ FLt(Zero, v) =>
                       LogDBValueToNormal(param, v) =
                           LogDBPositiveNormal(param, v)

\* a LogDBParam holding a value strictly between min and 0 whose normal lies
\* strictly between 0 and zero_normal
C18_Witness ==
    /\ status = "ok"
    /\ param.kind = "logdb"
    /\ last = "value"
    /\ FLt(param.min, param.value) /\ FLt(param.value, Zero)
    /\ FLt(Zero, param.normal) /\ FLt(param.normal, param.zero_normal)

\* C19: normal_to_value(n) is min for n < zero_normal when min >= 0 and max
\* for n > zero_normal when max <= 0 or zero_normal = 1.0; otherwise it is
\* min * (1 - n / zero_normal)^2 below zero_normal and
\* max * ((n - zero_normal) / (1 - zero_normal))^2 above it, and no divisor
\* is zero.
C19_LogDBEdgePolicy ==
    (status = "ok" /\ param.kind = "logdb") =>
        \A n \in NormalInputs :
            LET z == param.zero_normal
                r == LogDBNormalToValue(param, n)
            IN  /\ FLt(n, z) =>
                       IF FLe(Zero, param.min)
                       THEN r = param.min
                       ELSE /\ z # Zero
                            /\ r = FMul(param.min,
                                        FSquare(FSub(One, FDiv(n, z))))
                /\ FLt(z, n) =>
                       IF FLe(param.max, Zero) \/ z = One
                       THEN r = param.max
                       ELSE /\ FSub(One, z) # Zero
                            /\ r = FMul(param.max,
                                        FSquare(FDiv(FSub(n, z),
                                                     FSub(One, z))))
                /\ r[2] # 0

\* a LogDBParam with min = 0 set from a normal below zero_normal, and so
\* holding min
C19_Witness ==
    /\ status = "ok"
    /\ param.kind = "logdb"
    /\ last = "normal"
    /\ param.min = Zero
    /\ FLt(param.normal, param.zero_normal)
    /\ param.value = param.min

\* the value of a normal before the snap: n * (max - min) + min
FloatAffine(p, n) == FAdd(FMul(n, FSub(p.max, p.min)), p.min)

\* n maps strictly within 0.001 of the default value
FloatNearDefault(p, n) ==
    FLt(FAbs(FSub(FloatAffine(p, n), p.default_value)), SnapEps)

\* normal_to_value is the default value within 0.001 of it and the affine
\* value elsewhere
FloatSnaps(p) ==
    \A n \in NormalInputs :
        FloatNormalToValue(p, n) =
            IF FloatNearDefault(p, n) THEN p.default_value
            ELSE FloatAffine(p, n)

\* C20 as stated: normal_to_value snaps as above, and after
\* set_from_normal(n) with n mapping within 0.001 of the default, value() is
\* default_value().
C20_SnapToDefaultAsStated ==
    (status = "ok" /\ param.kind = "float") =>
        /\ FloatSnaps(param)
        /\ \A n \in NormalInputs :
               FloatNearDefault(param, n) =>
                   FloatSetFromNormal(param, n).value = param.default_value

\* C20 (amended): normal_to_value snaps as above, and after
\* set_from_normal(n) with n mapping within 0.001 of the default and n
\* different from the current normal(), value() is default_value().
C20_SnapToDefault ==
    (status = "ok" /\ param.kind = "float") =>
        /\ FloatSnaps(param)
        /\ \A n \in NormalInputs :
               (FloatNearDefault(param, n) /\ n # param.normal) =>
                   FloatSetFromNormal(param, n).value = param.default_value

\* a FloatParam set from a normal that maps near, not onto, the default
C20_Witness ==
    /\ status = "ok"
    /\ param.kind = "float"
    /\ last = "normal"
    /\ FloatNearDefault(param, param.normal)
    /\ FloatAffine(param, param.normal) # param.default_value
    /\ param.value = param.default_value

-----------------------------------------------------------------------------
\* Properties of the HSlider

MultiClick == {"double", "triple"}

\* C11: a double or further consecutive left click inside the bounds pushes
\* exactly the message (id, default_normal), leaves is_dragging false and
\* continuous_normal as it was; a cursor move outside a drag pushes nothing,
\* and only a single click starts a drag.
C11_DoubleClickStep ==
    /\ (event'.type = "pressed" /\ event'.kind \in MultiClick) =>
           /\ messages' = Append(messages,
                                 Message(param.id, param.default_normal))
           /\ ~state'.is_dragging
           /\ state'.continuous_normal = state.continuous_normal
    /\ (event'.type = "moved" /\ ~state.is_dragging) =>
           /\ messages' = messages
           /\ ~state'.is_dragging
    /\ (state'.is_dragging /\ ~state.is_dragging) =>
           (event'.type = "pressed" /\ event'.kind = "single")

C11_DoubleClickReset == [][C11_DoubleClickStep]_vars

\* a cursor move after a double click, with no single click in between
C11_Witness ==
    /\ event.type = "moved"
    /\ event.out = << >>
    /\ state.last_click.kind \in MultiClick
    /\ ~state.is_dragging

\* the Normal of the message pushed by the event handled last
Emitted == event.out[1].normal

\* the last event was a cursor move that pushed a message
MoveEmitted == event.type = "moved" /\ event.out # << >>

\* pixels the cursor has come back since the accumulator left [0, 1]
ReversedDistance == FAbs(FSub(state.prev_drag_x, FromInt(drag.turn_x)))

\* the part of the way back that exceeds the overshoot, over the width
Recovered ==
    FDiv(FSub(ReversedDistance, drag.overshoot), FromInt(bounds_width))

\* C12: in a drag without modifier, once the accumulator has gone below 0
\* by an overshoot of d pixels and the cursor comes back, the emitted Normal
\* is 0 while the way back is at most d and (way back - d) / width (at most
\* 1) beyond; the same at 1 with the directions exchanged.
C12_BoundaryRecovery ==
    (MoveEmitted /\ drag.active /\ drag.side # "none") =>
        IF FLe(ReversedDistance, drag.overshoot)
        THEN Emitted = (IF drag.side = "low" THEN Zero ELSE One)
        ELSE /\ drag.side = "low" =>
                    /\ FLt(Zero, Emitted)
                    /\ Emitted = (IF FLe(Recovered, One) THEN Recovered
                                  ELSE One)
             /\ drag.side = "high" =>
                    /\ FLt(Emitted, One)
                    /\ Emitted = (IF FLe(Recovered, One)
                                  THEN FSub(One, Recovered) ELSE Zero)

\* the cursor has come back further than the overshoot below 0
C12_Witness ==
    /\ MoveEmitted /\ drag.active /\ drag.side = "low"
    /\ FLt(Zero, drag.overshoot)
    /\ FLt(drag.overshoot, ReversedDistance)
    /\ Emitted = Recovered

\* the last event was a single click that took the slider from Idle to
\* Dragging
DragStarted ==
    /\ event.type = "pressed" /\ event.kind = "single"
    /\ ~event.was_dragging

\* the movement since the press of the drag, as a fraction of the width
DraggedSincePress ==
    FDiv(FromInt(event.cursor.x - drag.x_press), FromInt(bounds_width))

\* C13: after the single click that starts a drag the anchor is the x of
\* the cursor and continuous_normal is the Normal of the param, whatever
\* happened before; the first move of the drag (no modifier) then emits the
\* clamped sum of the param's Normal at the press and the movement.
C13_DragStartSeeding ==
    /\ DragStarted =>
           /\ state.is_dragging
           /\ state.prev_drag_x = FromInt(event.cursor.x)
           /\ state.continuous_normal = param.normal
    /\ (MoveEmitted /\ drag.active /\ drag.plain /\ drag.moves = 1) =>
           Emitted = NormalNew(FAdd(drag.p_press, DraggedSincePress))

\* the release is the event handled last and the host has applied every
\* message that was pushed
ReleasedAndApplied ==
    \/ event.type = "released" /\ messages = << >>
    \/ event.type = "update" /\ event.after = "released"

\* C14: once a release is handled and the host has applied every emitted
\* message, continuous_normal is the Normal of the param, in whatever order
\* the events and the host's steps came.
C14_ReleaseResync ==
    ReleasedAndApplied => state.continuous_normal = param.normal

\* a drag of non-zero width in which no move was scaled by the modifier
PlainDrag == drag.active /\ drag.plain /\ bounds_width # 0

\* C15: in a drag without modifier and of constant non-zero width w the
\* accumulator is its value at the press plus (anchor - x of the press) / w,
\* the anchor is the x of the last move, and each move emits the
\* accumulator clamped to [0, 1].
C15_IncrementalDeltas ==
    PlainDrag =>
        /\ state.is_dragging
        /\ state.continuous_normal =
               FAdd(drag.c_press,
                    FDiv(FSub(state.prev_drag_x, FromInt(drag.x_press)),
                         FromInt(bounds_width)))
        /\ MoveEmitted =>
               /\ state.prev_drag_x = FromInt(event.cursor.x)
               /\ Emitted = NormalNew(state.continuous_normal)

\* a second move of a drag, away from where the drag started
C15_Witness ==
    /\ PlainDrag /\ MoveEmitted /\ drag.moves = 2
    /\ state.prev_drag_x # FromInt(drag.x_press)
    /\ state.continuous_normal # drag.c_press

\* the factor of a move: modifier_scalar when every configured modifier key
\* is in the modifier state received last, 1 otherwise
FineTuning ==
    IF widget.modifier_keys \subseteq state.pressed_modifiers
    THEN widget.modifier_scalar ELSE One

\* C16: a move of a drag adds (cursor x - anchor) / width times
\* modifier_scalar when the modifier state received last holds the
\* configured keys and unscaled otherwise; pressed_modifiers is the state
\* of the last keyboard event and nothing else changes it; the defaults are
\* 0.02 and Ctrl.
C16_ModifierStep ==
    /\ event'.type = "keyboard" =>
           state'.pressed_modifiers = event'.modifiers
    /\ event'.type # "keyboard" =>
           state'.pressed_modifiers = state.pressed_modifiers
    /\ (event'.type = "moved" /\ state.is_dragging /\ bounds_width # 0) =>
           state'.continuous_normal =
               FAdd(state.continuous_normal,
                    FMul(FDiv(FSub(FromInt(event'.cursor.x),
                                   state.prev_drag_x),
                              FromInt(bounds_width)),
                         FineTuning))
    /\ HSliderNew(param).modifier_scalar = Q(2, 100)
    /\ HSliderNew(param).modifier_keys = {"control"}

C16_ModifierFineTuning == [][C16_ModifierStep]_vars

\* the second move of a drag is scaled and the first was not
C16_Witness ==
    /\ MoveEmitted /\ drag.active /\ drag.moves = 2
    /\ FineTuning # One
    /\ bounds_width # 0
    /\ LET dragged == FDiv(FSub(state.prev_drag_x, FromInt(drag.x_press)),
                           FromInt(bounds_width))
       IN  /\ state.continuous_normal # FAdd(drag.c_press, dragged)
           /\ state.continuous_normal #
                  FAdd(drag.c_press, FMul(dragged, FineTuning))

\* C17: every message pushed by the slider carries the id of the param and
\* a Normal within [0, 1], wherever the cursor is and whatever the
\* accumulator continuous_normal holds.
C17_EmittedNormalInUnit ==
    status = "ok" /\ widget # NoWidget =>
        /\ \A i \in 1..Len(messages) :
               /\ messages[i].id = param.id
               /\ InUnit(messages[i].normal)
        /\ event.type \notin {"none", "update", "set_from_value"} =>
               \A i \in 1..Len(event.out) : InUnit(event.out[i].normal)

\* a move has pushed a message while the accumulator is outside [0, 1]
C17_Witness ==
    /\ MoveEmitted
    /\ messages # << >>
    /\ ~InUnit(state.continuous_normal)
    /\ Emitted \in {Zero, One}

-----------------------------------------------------------------------------
\* Further properties of the params

\* a >= 0 rounded to the nearest integer, a fractional part of .5 upwards
RoundHalfUp(a) == (2 * a[1] + a[2]) \div (2 * a[2])

\* C21: IntParam::normal_to_value(n) is min + round(n * (max - min)), a
\* fractional part of exactly .5 rounded upwards, and lies within
\* [min, max]; with the range 0..2, 0.25 maps to 1 and 0.75 maps to 2.
C21_IntRounding ==
    (status = "ok" /\ param.kind = "int") =>
        \A n \in NormalInputs :
            LET v == IntNormalToValue(param, n)
                scaled == FMul(n, FromInt(param.max - param.min))
            IN  /\ v = param.min + RoundHalfUp(scaled)
                /\ param.min <= v /\ v <= param.max
                /\ (param.min = 0 /\ param.max = 2) =>
                       /\ n = Q(1, 4) => v = 1
                       /\ n = Q(3, 4) => v = 2

-----------------------------------------------------------------------------
\* Further properties of the HSlider

\* the host has applied the message of a move of the drag in progress
MoveApplied ==
    /\ event.type = "update" /\ event.after = "moved"
    /\ state.is_dragging /\ bounds_width # 0

\* the value of the IntParam is the one the accumulator rounds to
ValueTracksAccumulator ==
    (MoveApplied /\ param.kind = "int") =>
        param.value =
            param.min + RoundHalfUp(FMul(NormalNew(state.continuous_normal),
                                         FromInt(param.max - param.min)))

\* C22: within a drag continuous_normal is changed by cursor moves only,
\* each move adds its movement to the accumulator as the last move left it
\* (not to the Normal of the param), and once the host has applied the
\* message of a move the value of an IntParam is the integer the
\* accumulator rounds to.
C22_SubStepStep ==
    /\ (state.is_dragging /\ state'.is_dragging /\ event'.type # "moved") =>
           state'.continuous_normal = state.continuous_normal
    /\ (state.is_dragging /\ event'.type = "moved" /\ bounds_width # 0) =>
           state'.continuous_normal =
               FAdd(state.continuous_normal,
                    FMul(FDiv(FSub(FromInt(event'.cursor.x),
                                   state.prev_drag_x),
                              FromInt(bounds_width)),
                         FineTuning))
    /\ ValueTracksAccumulator'

C22_SubStepMotion == [][C22_SubStepStep]_vars

\* two moves of an eighth each, less than half a step of the IntParam
\* 0..2, have taken the accumulator from 1/2 over the rounding boundary 3/4
\* and the value from 1 to 2
C22_Witness ==
    /\ MoveApplied /\ param.kind = "int"
    /\ drag.active /\ drag.moves = 2
    /\ FLt(drag.largest, Q(1, 4))
    /\ drag.c_press = Q(1, 2) /\ drag.p_press = Q(1, 2)
    /\ state.continuous_normal = Q(3, 4)
    /\ param.value = 2 /\ param.normal = One

\* C23: is_dragging is true exactly when the last event among left presses
\* inside the bounds and left releases was a single click (drag.active
\* records this); every release leaves the widget Idle; draw passes this
\* flag to the renderer.
C23_DragFlag ==
    widget # NoWidget =>
        /\ state.is_dragging <=> drag.active
        /\ event.type = "released" => ~state.is_dragging
        /\ Draw(widget, state, bounds_width).is_dragging = drag.active

\* a drag that saw no move is ended by a release
C23_Witness ==
    /\ event.type = "released"
    /\ state.last_click # NoClick
    /\ state.last_click.kind = "single"
    /\ state.continuous_normal = param.normal
    /\ messages = << >>
    /\ steps = 2
    /\ ~Draw(widget, state, bounds_width).is_dragging

HostSteps == {"update", "set_from_value"}

\* the number of messages a step has pushed
Pushed == Len(messages') - Len(messages)

\* C24: an event pushes at most one message and keeps the pending ones;
\* exactly one is pushed by a cursor move of a drag with non-zero width and
\* by a multi-click inside the bounds; none by a single click, a release, a
\* keyboard event and a cursor move outside a drag.
C24_AccountingStep ==
    event'.type \notin HostSteps =>
        /\ Pushed \in {0, 1}
        /\ SubSeq(messages', 1, Len(messages)) = messages
        /\ (event'.type = "moved" /\ state.is_dragging /\ bounds_width # 0)
               => Pushed = 1
        /\ (event'.type = "pressed" /\ event'.kind \in MultiClick)
               => Pushed = 1
        /\ (event'.type = "pressed" /\ event'.kind = "single")
               => Pushed = 0
        /\ event'.type \in {"released", "keyboard"} => Pushed = 0
        /\ (event'.type = "moved" /\ ~state.is_dragging) => Pushed = 0

C24_MessageAccounting == [][C24_AccountingStep]_vars

\* a move has pushed the Normal that the move before it pushed
C24_Witness ==
    /\ MoveEmitted
    /\ Len(messages) = 2
    /\ messages[1] = messages[2]
    /\ drag.active /\ drag.moves = 2

\* C25: a keyboard event replaces pressed_modifiers by its modifiers and
\* changes nothing else: is_dragging, prev_drag_x, continuous_normal and
\* last_click stay, no message is pushed, the param and the widget stay.
C25_KeyboardStep ==
    event'.type = "keyboard" =>
        /\ state'.pressed_modifiers = event'.modifiers
        /\ state'.is_dragging = state.is_dragging
        /\ state'.prev_drag_x = state.prev_drag_x
        /\ state'.continuous_normal = state.continuous_normal
        /\ state'.last_click = state.last_click
        /\ messages' = messages
        /\ param' = param /\ widget' = widget

C25_KeyboardFrame == [][C25_KeyboardStep]_vars

\* the modifiers have changed in the middle of a drag, a message pending
C25_Witness ==
    /\ event.type = "keyboard"
    /\ state.pressed_modifiers = {"control", "shift"}
    /\ state.is_dragging
    /\ state.continuous_normal # param.normal
    /\ messages # << >>

\* the cursor of the step's event is outside the bounds of the widget
CursorOutside ==
    \/ event'.cursor.x < 0 \/ event'.cursor.x > bounds_width
    \/ event'.cursor.y < 0 \/ event'.cursor.y > DEFAULT_HEIGHT

\* the step's event is one the widget does not act on
Rejected ==
    \/ event'.type = "pressed" /\ CursorOutside
    \/ event'.type \in {"right_pressed", "right_released"}
    \/ event'.type = "moved" /\ ~state.is_dragging
    \/ event'.type = "moved" /\ state.is_dragging /\ bounds_width = 0

\* C26: a left press outside the bounds, a press or release of another
\* button, a cursor move outside a drag and a cursor move of a drag with
\* bounds of width 0 leave every field of State as it was and push no
\* message.
C26_RejectedStep ==
    Rejected =>
        /\ state' = state
        /\ messages' = messages
        /\ param' = param /\ widget' = widget

C26_RejectedEvents == [][C26_RejectedStep]_vars

\* a drag on bounds of width 0 has ignored a move away from its anchor
C26_Witness ==
    /\ event.type = "moved"
    /\ state.is_dragging /\ bounds_width = 0
    /\ state.prev_drag_x # FromInt(event.cursor.x)
    /\ event.out = << >>

-----------------------------------------------------------------------------
\* Further properties of the params, continued

\* C27: set_from_value and set_from_normal change no field of a param
\* other than value and normal: id, min, max, default_value,
\* default_normal, zero_normal, min_spectrum_normal, spectrum_normal_range
\* and the range stay as new left them.
C27_ConfigStep ==
    (status = "ok" /\ status' = "ok") =>
        [param' EXCEPT !.value = param.value, !.normal = param.normal] = param

C27_ConfigImmutable == [][C27_ConfigStep]_vars

\* a set_from_normal has moved a LogDBParam away from its default
C27_Witness ==
    /\ status = "ok" /\ param.kind = "logdb"
    /\ last = "normal"
    /\ param.value # param.default_value
    /\ param.normal # param.default_normal

\* normal_to_value(n) is the default value put in place of the affine value
Snapped(p, n) == p.kind = "float" /\ FloatNearDefault(p, n)

\* value_to_normal keeps the order of the values within [min, max]
ValueToNormalMonotone(p) ==
    \A a \in ValueInputs(p), b \in ValueInputs(p) :
        (InBounds(p, a) /\ InBounds(p, b) /\ ValueLe(p, a, b)) =>
            FLe(ValueToNormal(p, a), ValueToNormal(p, b))

\* the Normals compared: for LogDBParam, whose conversion squares them, the
\* ones with small denominators
OrderedNormals(p) ==
    IF p.kind = "logdb" THEN {Zero, Q(1, 4), Q(1, 2), Q(3, 4), Q(4, 5), One}
    ELSE NormalInputs

\* normal_to_value keeps the order of the Normals, the snapped ones aside
NormalToValueMonotone(p) ==
    \A m \in OrderedNormals(p), n \in OrderedNormals(p) :
        (FLe(m, n) /\ ~Snapped(p, m) /\ ~Snapped(p, n)) =>
            ValueLe(p, NormalToValue(p, m), NormalToValue(p, n))

\* the values below 0 dB map at or below zero_normal, those above at or
\* above it
AcrossZero(p) ==
    \A v \in DbValues :
        InBounds(p, v) =>
            /\ FLt(v, Zero) => FLe(LogDBValueToNormal(p, v), p.zero_normal)
            /\ FLt(Zero, v) => FLe(p.zero_normal, LogDBValueToNormal(p, v))

\* C28: for every param that new returned, value_to_normal is monotone on
\* [min, max] and normal_to_value is monotone on the Normals that are not
\* snapped to the default; for LogDBParam also across the 0 dB point.
C28_Monotone ==
    status = "ok" =>
        /\ ValueToNormalMonotone(param)
        /\ NormalToValueMonotone(param)
        /\ param.kind = "logdb" => AcrossZero(param)

\* C29: for all i32 min < max, IntParam::new computes max - min without
\* wrapping or panicking, and value_to_normal computes value - min exactly
\* for every value within [min, max].
C29_NoOverflow ==
    (status # "unbuilt" /\ args.kind = "int" /\ args.min < args.max) =>
        /\ status = "ok"
        /\ InI32(param.max - param.min)
        /\ param.range = FromInt(param.max - param.min)
        /\ \A value \in IntValues :
               (param.min <= value /\ value <= param.max) =>
                   /\ InI32(value - param.min)
                   /\ IntValueToNormal(param, value) =
                          NormalNew(FMul(FromInt(value - param.min),
                                         FRecip(FromInt(param.max - param.min))))

====
